---------------------------- MODULE Spec2Model ----------------------------
(***************************************************************************)
(* Model of final_app.py: the survey loader (load_data), the statistical   *)
(* engine (calculate_stats) and the script run that filters the data and   *)
(* renders the three risk-factor sections.                                 *)
(*                                                                         *)
(* Numbers.  A float is modelled as an exact rational                      *)
(* [nan, num, den] in lowest terms, or NaN.  A p-value is the term         *)
(* chi2.sf(chi2, dof), kept as the pair [chi2, dof]; the literal 1.0 is    *)
(* the term with chi2 = 0 (sf(0, k) = 1 for every k).                      *)
(* Cells.  A numeric CSV cell is <<n>>, a missing cell (NaN) is <<>>.      *)
(* Strings that the code transforms (Sesso) are sequences of characters.   *)
(***************************************************************************)
EXTENDS Integers, Sequences, FiniteSets, TLC

VARIABLES pc, csv, df, sel_gender, sel_age, df_filtered, ret, memo, error, trace

vars == <<pc, csv, df, sel_gender, sel_age, df_filtered, ret, memo, error, trace>>

----------------------------------------------------------------------------
(* Bounds of the model                                                     *)

\* longest survey table drawn for the statistics harness (SpecStats)
MaxRows == 3

\* longest survey table drawn for the script run (Spec)
MaxAppRows == 2

\* longest survey table drawn for the loader alone (SpecLoad)
MaxLoadRows == 1

----------------------------------------------------------------------------
(* Floats as exact rationals                                               *)

Abs(n) == IF n < 0 THEN -n ELSE n

RECURSIVE GCD(_, _)
GCD(a, b) == IF b = 0 THEN a ELSE GCD(b, a % b)

NaN == [nan |-> TRUE, num |-> 0, den |-> 1]

Rat(n, d) ==
    LET g == GCD(Abs(n), d)
    IN  [nan |-> FALSE, num |-> n \div g, den |-> d \div g]

Zero == Rat(0, 1)

One == Rat(1, 1)

\* x + y
Add(x, y) ==
    IF x.nan \/ y.nan THEN NaN
    ELSE LET l == (x.den \div GCD(x.den, y.den)) * y.den
         IN  Rat(x.num * (l \div x.den) + y.num * (l \div y.den), l)

\* x / y for y > 0 (the only division the code performs, line 72)
Div(x, y) ==
    IF x.nan \/ y.nan THEN NaN
    ELSE Rat(x.num * y.den, x.den * y.num)

\* x > 0; any comparison with NaN is False
Gt0(x) == ~x.nan /\ x.num > 0

\* x <= y, False when either is NaN
Leq(x, y) == ~x.nan /\ ~y.nan /\ x.num * y.den <= y.num * x.den

----------------------------------------------------------------------------
(* Sequences                                                               *)

RECURSIVE SelectRows(_, _)
SelectRows(s, keep) ==
    IF s = <<>> THEN <<>>
    ELSE IF s[1] \in keep THEN <<s[1]>> \o SelectRows(Tail(s), keep)
         ELSE SelectRows(Tail(s), keep)

RECURSIVE SumSeq(_)
SumSeq(s) == IF s = <<>> THEN 0 ELSE s[1] + SumSeq(Tail(s))

RECURSIVE SumSet(_, _)
SumSet(S, f) ==
    IF S = {} THEN Zero
    ELSE LET e == CHOOSE x \in S : TRUE
         IN  Add(f[e], SumSet(S \ {e}, f))

RECURSIVE SumInt(_, _)
SumInt(S, f) ==
    IF S = {} THEN 0
    ELSE LET e == CHOOSE x \in S : TRUE
         IN  f[e] + SumInt(S \ {e}, f)

Range(s) == {s[i] : i \in 1..Len(s)}

SeqsUpTo(S, n) == UNION {[1..k -> S] : k \in 0..n}

----------------------------------------------------------------------------
(* CSV cells                                                               *)

Missing == <<>>

Cell(n) == <<n>>


----------------------------------------------------------------------------
(* load_data: the derived columns                                          *)

\* str.upper() on one character of the survey's gender alphabet
Upper(c) ==
    CASE c = "m" -> "M"
      [] c = "f" -> "F"
      [] OTHER -> c

RECURSIVE LStrip(_)
LStrip(s) == IF s # <<>> /\ s[1] = " " THEN LStrip(Tail(s)) ELSE s

RECURSIVE RStrip(_)
RStrip(s) ==
    IF s # <<>> /\ s[Len(s)] = " " THEN RStrip(SubSeq(s, 1, Len(s) - 1)) ELSE s

\* df['Sesso'].astype(str).str.upper().str.strip()
CleanGender(s) == LStrip(RStrip([i \in 1..Len(s) |-> Upper(s[i])]))

\* a value the .map() of a lookup table leaves unmapped (NaN in an object column)
NoLabel == "<NaN>"

\* lambda x: 1 if x == 1.0 else 0
Has_Cavity_Numeric_NotHealthy(x) == IF x = Cell(2) THEN 0 ELSE 1

Has_Cavity_Numeric(x) == IF x = Cell(1) THEN 1 ELSE 0

\* .map({1.0: 'Has Cavities', 2.0: 'Healthy', 3.0: 'Unknown'})
Cavity_Status(x) ==
    CASE x = Cell(1) -> "Has Cavities"
      [] x = Cell(2) -> "Healthy"
      [] x = Cell(3) -> "Unknown"
      [] OTHER -> NoLabel

\* .map(simple_map), before the fillna
simple_map(x) ==
    CASE x = Cell(1) -> "Yes"
      [] x = Cell(2) -> "No"
      [] x = Cell(3) -> "Other"
      [] OTHER -> NoLabel

\* .map(dentist_map), before the fillna
dentist_map(x) ==
    CASE x = Cell(1) -> "Never Visited"
      [] x = Cell(2) -> "Visited"
      [] x = Cell(3) -> "Don't Remember"
      [] OTHER -> NoLabel

\* Series.fillna(value)
fillna(label, value) == IF label = NoLabel THEN value ELSE label

Sweets_Label(x) == fillna(simple_map(x), "Other")

Soda_Label(x) == fillna(simple_map(x), "Other")

Dentist_Label_NoFill(x) == dentist_map(x)

Dentist_Label(x) == fillna(dentist_map(x), "Don't Remember")

\* one record of the frame load_data returns
NormalizeRow(r) ==
    [Sesso |-> CleanGender(r.Sesso),
     Eta |-> r.Eta,
     Ha_carie |-> r.Ha_carie,
     Has_Cavity_Numeric |-> Has_Cavity_Numeric(r.Ha_carie),
     Cavity_Status |-> Cavity_Status(r.Ha_carie),
     Sweets_Label |-> Sweets_Label(r.sweets),
     Soda_Label |-> Soda_Label(r.soda),
     Dentist_Label |-> Dentist_Label(r.dentist),
     sweets |-> r.sweets,
     soda |-> r.soda,
     dentist |-> r.dentist]

\* the frame load_data returns when the file and its columns are there
load_data(rows) == [i \in 1..Len(rows) |-> NormalizeRow(rows[i])]

\* the columns of the file, in the order the script first reads them
ColumnOrder ==
    <<"Sesso", "Ha carie?", "Mangi spesso caramelle e cioccolatini?",
      "Bevi spesso bibite?", "Sei mai stato/a dal dentista?", "Eta",
      "Se non ti piacciono, perche?">>

AllColumns == {ColumnOrder[i] : i \in 1..Len(ColumnOrder)}

\* the columns load_data itself indexes (lines 35-48), in order
LoadColumns == SubSeq(ColumnOrder, 1, 5)

\* the derived columns assigned once the n-th column of LoadColumns was read
DerivedAfter(n) ==
    CASE n = 0 -> {}
      [] n = 1 -> {"Sesso"}
      [] n = 2 -> {"Sesso", "Has_Cavity_Numeric", "Cavity_Status"}
      [] n = 3 -> {"Sesso", "Has_Cavity_Numeric", "Cavity_Status", "Sweets_Label"}
      [] n = 4 -> {"Sesso", "Has_Cavity_Numeric", "Cavity_Status", "Sweets_Label",
                   "Soda_Label"}
      [] OTHER -> {"Sesso", "Has_Cavity_Numeric", "Cavity_Status", "Sweets_Label",
                   "Soda_Label", "Dentist_Label"}

\* index in LoadColumns of the first column the file lacks, 0 when none
FirstMissing(columns) ==
    LET bad == {i \in 1..Len(LoadColumns) : LoadColumns[i] \notin columns}
    IN  IF bad = {} THEN 0 ELSE CHOOSE i \in bad : \A j \in bad : i <= j

----------------------------------------------------------------------------
(* calculate_stats                                                         *)

\* data[data[col_name].isin([group_a, group_b])]
subset(data, col_name, group_a, group_b) ==
    SelectRows(data, {r \in Range(data) : r[col_name] \in {group_a, group_b}})

\* pd.crosstab(subset[col_name], subset['Ha carie?']): the records with a
\* missing outcome code are dropped, the index and the columns are the
\* values that remain, and every cell is a count
crosstab(sub, col_name) ==
    LET kept == SelectRows(sub, {r \in Range(sub) : r.Ha_carie # Missing})
        index == {r[col_name] : r \in Range(kept)}
        columns == {r.Ha_carie : r \in Range(kept)}
    IN  [index |-> index,
         columns |-> columns,
         n |-> [c \in index \X columns |->
                  Cardinality({i \in 1..Len(kept) :
                      kept[i][col_name] = c[1] /\ kept[i].Ha_carie = c[2]})]]

\* the p-value chi2.sf(chi2, dof); sf(0, dof) is 1.0
Sf(chi2, dof) == IF chi2 = Zero THEN [chi2 |-> Zero, dof |-> 0]
                 ELSE [chi2 |-> chi2, dof |-> dof]

POne == [chi2 |-> Zero, dof |-> 0]

PNaN == [chi2 |-> NaN, dof |-> 0]

\* the margins of a contingency table
Total(ct) == SumInt(ct.index \X ct.columns, ct.n)

RowSum(ct, g) == SumInt({g} \X ct.columns, ct.n)

ColSum(ct, c) == SumInt(ct.index \X {c}, ct.n)

\* one cell's (observed - expected)^2 / expected, with expected =
\* row * column / total; under Yates' correction the observed count is moved
\* towards the expected one by min(0.5, |expected - observed|) first
chi2_term(ct, cell, yates) ==
    LET N == Total(ct)
        r == RowSum(ct, cell[1])
        k == ColSum(ct, cell[2])
        D == Abs(ct.n[cell] * N - r * k)
        Y == IF 2 * D - N > 0 THEN 2 * D - N ELSE 0
    IN  IF yates THEN Rat(Y * Y, 4 * N * r * k)
        ELSE Rat(D * D, N * r * k)

\* scipy.stats.chi2_contingency(ct), correction=True:
\* raises ValueError on a table of size 0 (and on a zero expected frequency,
\* which a crosstab never has); a table with dof = 0 gives chi2 = 0, p = 1;
\* a table with dof = 1 gets Yates' continuity correction
chi2_contingency_NoDofCase(ct) ==
    LET cells == ct.index \X ct.columns
        dof == (Cardinality(ct.index) - 1) * (Cardinality(ct.columns) - 1)
    IN  IF cells = {} THEN [raised |-> TRUE, p |-> PNaN]
        ELSE IF dof = 0 THEN [raised |-> FALSE, p |-> PNaN]
        ELSE [raised |-> FALSE,
              p |-> Sf(SumSet(cells, [c \in cells |-> chi2_term(ct, c, dof = 1)]), dof)]

chi2_contingency(ct) ==
    LET cells == ct.index \X ct.columns
        dof == (Cardinality(ct.index) - 1) * (Cardinality(ct.columns) - 1)
    IN  IF cells = {} THEN [raised |-> TRUE, p |-> PNaN]
        ELSE IF dof = 0 THEN [raised |-> FALSE, p |-> POne]
        ELSE [raised |-> FALSE,
              p |-> Sf(SumSet(cells, [c \in cells |-> chi2_term(ct, c, dof = 1)]), dof)]

\* Series.mean() of the Has_Cavity_Numeric column: NaN on an empty series
mean_NonMissing(rows) ==
    LET kept == SelectRows(rows, {r \in Range(rows) : r.Ha_carie # Missing})
    IN  IF kept = <<>> THEN NaN
        ELSE Rat(SumSeq([i \in 1..Len(kept) |-> kept[i].Has_Cavity_Numeric]), Len(kept))

mean(rows) ==
    IF rows = <<>> THEN NaN
    ELSE Rat(SumSeq([i \in 1..Len(rows) |-> rows[i].Has_Cavity_Numeric]), Len(rows))

\* subset[subset[col_name] == group_a]['Has_Cavity_Numeric'].mean()
rate_a(sub, col_name, group_a) ==
    mean(SelectRows(sub, {r \in Range(sub) : r[col_name] = group_a}))

\* subset[subset[col_name] == group_b]['Has_Cavity_Numeric'].mean()
rate_b_WholeSubset(sub, col_name, group_b) == mean(sub)

rate_b(sub, col_name, group_b) ==
    mean(SelectRows(sub, {r \in Range(sub) : r[col_name] = group_b}))

\* rate_a / rate_b if rate_b > 0 else 0
risk_ratio(ra, rb) == IF Gt0(rb) THEN Div(ra, rb) ELSE Zero

\* the tuple (p, risk_ratio, rate_a, rate_b) as a record
Result(p, rr, ra, rb) == [p |-> p, risk_ratio |-> rr, rate_a |-> ra, rate_b |-> rb]

calculate_stats_NoEmptyGuard(data, col_name, group_a, group_b) ==
    LET sub == subset(data, col_name, group_a, group_b)
        chi == chi2_contingency(crosstab(sub, col_name))
        p == IF chi.raised THEN POne ELSE chi.p
        ra == rate_a(sub, col_name, group_a)
        rb == rate_b(sub, col_name, group_b)
    IN  Result(p, risk_ratio(ra, rb), ra, rb)

calculate_stats(data, col_name, group_a, group_b) ==
    LET sub == subset(data, col_name, group_a, group_b)
        chi == chi2_contingency(crosstab(sub, col_name))
        p == IF chi.raised THEN POne ELSE chi.p
        ra == rate_a(sub, col_name, group_a)
        rb == rate_b(sub, col_name, group_b)
    IN  IF sub = <<>> THEN Result(POne, Zero, Zero, Zero)
        ELSE Result(p, risk_ratio(ra, rb), ra, rb)

----------------------------------------------------------------------------
(* The survey files the model draws                                        *)

RawRow(g, age, h, s, so, d) ==
    [Sesso |-> g, Eta |-> age, Ha_carie |-> h, sweets |-> s, soda |-> so, dentist |-> d]

File(exists, columns, rows) == [exists |-> exists, columns |-> columns, rows |-> rows]

\* every code a cell of a question column is drawn from: the three codes of
\* the questionnaire, a code outside them, and a missing answer
AllCodes == {Missing, Cell(1), Cell(2), Cell(3), Cell(4)}

\* the factor codes of the statistics harness
FactorCodes == {Cell(1), Cell(2), Cell(3)}

\* the next factor code, cyclically: within one drawn record the three
\* factor questions carry different codes
Shift(c) == IF c = Cell(3) THEN Cell(1) ELSE Cell(c[1] + 1)

StatRows ==
    {RawRow(<<"F">>, 6, h, c, Shift(c), Shift(Shift(c))) : h \in AllCodes, c \in FactorCodes}

\* Scenario 1 of the specification: 5 records "Yes" (3 with outcome 1) and
\* 5 records "No" (1 with outcome 1)
Scenario1 ==
    LET yes(h) == RawRow(<<"F">>, 6, Cell(h), Cell(1), Cell(2), Cell(3))
        no(h) == RawRow(<<"F">>, 6, Cell(h), Cell(2), Cell(3), Cell(1))
    IN  <<yes(1), yes(1), yes(1), yes(2), yes(2), no(1), no(2), no(2), no(2), no(2)>>

StatFiles ==
    {File(TRUE, AllColumns, rows) : rows \in SeqsUpTo(StatRows, MaxRows) \cup {Scenario1}}

\* the columns the specification calls required; the free-text complaint
\* column is the optional one
RequiredColumns == AllColumns \ {"Se non ti piacciono, perche?"}

\* a file that is not there, and the files that lack one column
BrokenFiles(rowsets) ==
    {File(FALSE, AllColumns, <<>>)} \cup
    {File(TRUE, AllColumns \ {c}, rows) : c \in AllColumns, rows \in rowsets}

\* the loader alone: one record per combination of codes
LoadRows ==
    {RawRow(<<"F">>, 6, h, s, so, d) : h \in AllCodes, s \in AllCodes, so \in AllCodes, d \in AllCodes}

LoadFiles ==
    {File(TRUE, AllColumns, rows) : rows \in SeqsUpTo(LoadRows, MaxLoadRows)}
    \cup BrokenFiles({<<>>})

\* the script run: two spellings of gender, two ages with a gap between
\* them, and three answer sheets
AppRows ==
    {RawRow(g, age, a[1], a[2], a[3], a[4]) :
        g \in {<<"F">>, <<" ", "m">>},
        age \in {6, 8},
        a \in {<<Cell(1), Cell(1), Cell(2), Cell(2)>>,
               <<Cell(2), Cell(2), Cell(1), Cell(1)>>,
               <<Missing, Cell(3), Cell(4), Missing>>}}

AppFiles ==
    {File(TRUE, AllColumns, rows) : rows \in SeqsUpTo(AppRows, MaxAppRows)}
    \cup BrokenFiles(SeqsUpTo(AppRows, 1))

\* the comparisons render_section asks for (lines 149, 153, 157)
Sections ==
    {[title |-> "sweets", col_name |-> "Sweets_Label", group_yes |-> "Yes", group_no |-> "No"],
     [title |-> "soda", col_name |-> "Soda_Label", group_yes |-> "Yes", group_no |-> "No"],
     [title |-> "dentist", col_name |-> "Dentist_Label", group_yes |-> "Visited",
      group_no |-> "Never Visited"]}

Section(title) == CHOOSE s \in Sections : s.title = title

\* the same comparison with the two groups exchanged
Swapped(q) == [q EXCEPT !.group_yes = q.group_no, !.group_no = q.group_yes]

\* one call of calculate_stats and what it returned
Call(data, q) ==
    [q |-> q, r |-> calculate_stats(data, q.col_name, q.group_yes, q.group_no)]

----------------------------------------------------------------------------
(* The script run                                                          *)

NoRet == <<>>

NoMemo == [t \in {"sweets", "soda", "dentist"} |-> <<>>]

Init0(file) ==
    /\ pc = "start"
    /\ csv = file
    /\ df = <<>>
    /\ sel_gender = {}
    /\ sel_age = <<0, 0>>
    /\ df_filtered = <<>>
    /\ ret = NoRet
    /\ memo = NoMemo
    /\ error = "none"
    /\ trace = {}

\* df = load_data() (lines 27-52): st.error and st.stop() when read_csv
\* raises, an uncaught KeyError at the first column the file lacks
LoadData ==
    /\ pc = "start"
    /\ UNCHANGED <<csv, sel_gender, sel_age, df_filtered, ret, memo>>
    /\ IF ~csv.exists
       THEN /\ pc' = "stopped"
            /\ error' = "st.error"
            /\ df' = <<>>
            /\ trace' = {}
       ELSE IF FirstMissing(csv.columns) # 0
       THEN /\ pc' = "crashed"
            /\ error' = "KeyError"
            /\ df' = <<>>
            /\ trace' = DerivedAfter(FirstMissing(csv.columns) - 1)
       ELSE /\ pc' = "sidebar"
            /\ error' = "none"
            /\ df' = load_data(csv.rows)
            /\ trace' = DerivedAfter(Len(LoadColumns))

----------------------------------------------------------------------------
(* The script run, top to bottom (lines 52-175), and its reruns            *)

Titles == {"sweets", "soda", "dentist"}

\* the sidebar (lines 77-82): the multiselect returns any subset of the
\* genders of df, the slider any range within the ages of df; df['Eta']
\* raises KeyError without the column, int(NaN) raises ValueError on a
\* frame without records
Sidebar ==
    /\ pc = "sidebar"
    /\ UNCHANGED <<csv, df, df_filtered, ret, memo, trace>>
    /\ IF "Eta" \notin csv.columns
       THEN pc' = "crashed" /\ error' = "KeyError" /\ UNCHANGED <<sel_gender, sel_age>>
       ELSE IF df = <<>>
       THEN pc' = "crashed" /\ error' = "ValueError" /\ UNCHANGED <<sel_gender, sel_age>>
       ELSE LET genders == {r.Sesso : r \in Range(df)}
                ages == {r.Eta : r \in Range(df)}
                min_a == CHOOSE a \in ages : \A b \in ages : a <= b
                max_a == CHOOSE a \in ages : \A b \in ages : b <= a
            IN  /\ \E g \in SUBSET genders : sel_gender' = g
                /\ \E lo \in min_a..max_a : \E hi \in lo..max_a : sel_age' = <<lo, hi>>
                /\ pc' = "filter"
                /\ error' = "none"

\* df[(df['Sesso'].isin(sel_gender)) & (df['Eta'] >= lo) & (df['Eta'] <= hi)]
FilterRows(data, genders, age) ==
    SelectRows(data, {r \in Range(data) :
        r.Sesso \in genders /\ r.Eta >= age[1] /\ r.Eta <= age[2]})

\* df_filtered = df[...] (lines 84-88) and the top metrics (lines 95-101),
\* which only read df_filtered
FilterInPlace ==
    /\ pc = "filter"
    /\ df_filtered' = FilterRows(df, sel_gender, sel_age)
    /\ df' = df_filtered'
    /\ pc' = "sweets"
    /\ trace' = trace \cup {"filter"}
    /\ UNCHANGED <<csv, sel_gender, sel_age, ret, memo, error>>

Filter ==
    /\ pc = "filter"
    /\ df_filtered' = FilterRows(df, sel_gender, sel_age)
    /\ pc' = "sweets"
    /\ trace' = trace \cup {"filter"}
    /\ UNCHANGED <<csv, df, sel_gender, sel_age, ret, memo, error>>

AfterSection(title) ==
    CASE title = "sweets" -> "soda"
      [] title = "soda" -> "dentist"
      [] OTHER -> "qualitative"

\* render_section (lines 106-146): one calculate_stats call on df_filtered;
\* the chart and the stat box only read df_filtered and the result.
\* memo keeps, per section, the rows and the result of its latest call.
RenderSection(title) ==
    /\ pc = title
    /\ ret' = <<Call(df_filtered, Section(title))>>
    /\ memo' = [memo EXCEPT ![title] = <<[data |-> df_filtered, r |-> ret'[1].r]>>]
    /\ pc' = AfterSection(title)
    /\ trace' = trace \cup {"calculate_stats", "chart"}
    /\ UNCHANGED <<csv, df, sel_gender, sel_age, df_filtered, error>>

\* the complaints table (lines 162-175): dropna(subset=[...]) raises
\* KeyError without the complaint column
Qualitative ==
    /\ pc = "qualitative"
    /\ IF "Se non ti piacciono, perche?" \in csv.columns
       THEN pc' = "done" /\ error' = "none"
       ELSE pc' = "crashed" /\ error' = "KeyError"
    /\ UNCHANGED <<csv, df, sel_gender, sel_age, df_filtered, ret, memo, trace>>

\* a widget interaction or a reload runs the script again from the top
Rerun ==
    /\ pc \in {"done", "stopped", "crashed"}
    /\ pc' = "start"
    /\ df' = <<>>
    /\ sel_gender' = {}
    /\ sel_age' = <<0, 0>>
    /\ df_filtered' = <<>>
    /\ ret' = NoRet
    /\ error' = "none"
    /\ trace' = {}
    /\ UNCHANGED <<csv, memo>>

Init == \E file \in AppFiles : Init0(file)

Next ==
    \/ LoadData
    \/ Sidebar
    \/ Filter
    \/ RenderSection("sweets")
    \/ RenderSection("soda")
    \/ RenderSection("dentist")
    \/ Qualitative
    \/ Rerun

Spec == Init /\ [][Next]_vars

----------------------------------------------------------------------------
(* The loader alone and the statistics harness                             *)

InitLoad == \E file \in LoadFiles : Init0(file)

NextLoad == LoadData

SpecLoad == InitLoad /\ [][NextLoad]_vars

\* the statistics harness: compareGroups on the loaded dataset ...
CompareGroups ==
    /\ pc = "sidebar"
    /\ \E q \in Sections : ret' = <<Call(df, q)>>
    /\ pc' = "compared"
    /\ df_filtered' = df
    /\ trace' = trace \cup {"calculate_stats"}
    /\ UNCHANGED <<csv, df, sel_gender, sel_age, memo, error>>

\* ... and once more with groupA and groupB exchanged
CompareSwapped ==
    /\ pc = "compared"
    /\ ret' = Append(ret, Call(df_filtered, Swapped(ret[1].q)))
    /\ pc' = "swapped"
    /\ UNCHANGED <<csv, df, sel_gender, sel_age, df_filtered, memo, error, trace>>

InitStats == \E file \in StatFiles : Init0(file)

NextStats == LoadData \/ CompareGroups \/ CompareSwapped

SpecStats == InitStats /\ [][NextStats]_vars

----------------------------------------------------------------------------
(* What a call was given, counted from the rows themselves                 *)

\* the number of records of data whose col_name is group (and, for
\* CountCode, whose raw outcome code is code)
CountGroup(data, col_name, group) ==
    Cardinality({i \in 1..Len(data) : data[i][col_name] = group})

CountCode(data, col_name, group, code) ==
    Cardinality({i \in 1..Len(data) :
        data[i][col_name] = group /\ data[i].Ha_carie = code})

\* the distinct outcome codes, and the groups, that the restricted subset
\* holds with a code that is not missing
CodesPresent(data, q) ==
    {c \in AllCodes \ {Missing} :
        CountCode(data, q.col_name, q.group_yes, c) + CountCode(data, q.col_name, q.group_no, c) > 0}

GroupsPresent(data, q) ==
    {g \in {q.group_yes, q.group_no} :
        \E c \in AllCodes \ {Missing} : CountCode(data, q.col_name, g, c) > 0}

SubsetEmpty(data, q) ==
    CountGroup(data, q.col_name, q.group_yes) + CountGroup(data, q.col_name, q.group_no) = 0

\* the chi-square test has nothing to test: a compared group without a
\* counted record, fewer than two outcome categories, or no outcome at all
TestUndefined(data, q) ==
    Cardinality(GroupsPresent(data, q)) < 2 \/ Cardinality(CodesPresent(data, q)) < 2

\* x is a number between 0 and 1
InUnit(x) == ~x.nan /\ Leq(Zero, x) /\ Leq(x, One)

\* x = n / d, by cross-multiplication
IsFraction(x, n, d) == ~x.nan /\ x.num * d = n * x.den

\* the calls made so far
Calls == {ret[i] : i \in 1..Len(ret)}

----------------------------------------------------------------------------
(* Claims about calculate_stats, checked under SpecStats                   *)

\* C2: when the restricted subset is not empty and exactly one of the two
\* compared groups has no record, the rate returned for that group is 0.0
\* (and the risk ratio is 0.0 when the empty group is groupB).
C2_EmptyGroupRateIsZero ==
    \A c \in Calls :
        LET nA == CountGroup(df_filtered, c.q.col_name, c.q.group_yes)
            nB == CountGroup(df_filtered, c.q.col_name, c.q.group_no)
        IN  /\ (nA = 0 /\ nB > 0) => c.r.rate_a = Zero
            /\ (nB = 0 /\ nA > 0) => (c.r.rate_b = Zero /\ c.r.risk_ratio = Zero)

\* C3: every result has four defined numbers: p-value in [0,1] (the
\* survival function of a chi-square statistic that is a number >= 0),
\* risk ratio >= 0, rateA and rateB in [0,1].
C3_ResultFullyDefined ==
    \A c \in Calls :
        /\ ~c.r.p.chi2.nan /\ Leq(Zero, c.r.p.chi2)
        /\ ~c.r.risk_ratio.nan /\ Leq(Zero, c.r.risk_ratio)
        /\ InUnit(c.r.rate_a)
        /\ InUnit(c.r.rate_b)

\* C4: when both compared groups have records, rateA is the number of groupA
\* records with raw outcome code 1 over the number of all groupA records,
\* rateB likewise, and riskRatio is rateA / rateB when rateB > 0 and 0
\* otherwise; Scenario 1 gives 0.6, 0.2 and 3.0.
C4_RatesAreCodeOneShares ==
    \A c \in Calls :
        LET nA == CountGroup(df_filtered, c.q.col_name, c.q.group_yes)
            nB == CountGroup(df_filtered, c.q.col_name, c.q.group_no)
            kA == CountCode(df_filtered, c.q.col_name, c.q.group_yes, Cell(1))
            kB == CountCode(df_filtered, c.q.col_name, c.q.group_no, Cell(1))
        IN  (nA > 0 /\ nB > 0) =>
              /\ IsFraction(c.r.rate_a, kA, nA)
              /\ IsFraction(c.r.rate_b, kB, nB)
              /\ IF kB > 0 THEN IsFraction(c.r.risk_ratio, kA * nB, nA * kB)
                 ELSE c.r.risk_ratio = Zero
              /\ (csv.rows = Scenario1 /\ c.q = Section("sweets")) =>
                    /\ c.r.rate_a = Rat(6, 10)
                    /\ c.r.rate_b = Rat(2, 10)
                    /\ c.r.risk_ratio = Rat(3, 1)

\* Scenario 1 was compared: 3 of 5 against 1 of 5, on the 2x2 table
\* [[3, 2], [1, 4]] whose corrected statistic is 10 * (10 - 5)^2 / 600
C4_Witness ==
    /\ pc = "compared"
    /\ csv.rows = Scenario1
    /\ ret[1].q = Section("sweets")
    /\ ret[1].r.p = [chi2 |-> Rat(5, 12), dof |-> 1]
    /\ ret[1].r.rate_a = Rat(3, 5)
    /\ ret[1].r.rate_b = Rat(1, 5)
    /\ ret[1].r.risk_ratio = Rat(3, 1)

\* C5: the call with groupA and groupB exchanged returns the two rates
\* exchanged and the same p-value, and when both rates are > 0 its risk
\* ratio is the reciprocal of the original one.
C5_SwapExchangesRates ==
    pc = "swapped" =>
        /\ ret[2].q = Swapped(ret[1].q)
        /\ ret[2].r.rate_a = ret[1].r.rate_b
        /\ ret[2].r.rate_b = ret[1].r.rate_a
        /\ ret[2].r.p = ret[1].r.p
        /\ (Gt0(ret[1].r.rate_a) /\ Gt0(ret[1].r.rate_b)) =>
              /\ ~ret[2].r.risk_ratio.nan
              /\ ret[2].r.risk_ratio.num * ret[1].r.risk_ratio.num
                   = ret[2].r.risk_ratio.den * ret[1].r.risk_ratio.den

\* both calls were made on a table with a test statistic > 0 and two
\* different rates > 0
C5_Witness ==
    /\ pc = "swapped"
    /\ ret[1].r.p # POne
    /\ Gt0(ret[1].r.rate_a)
    /\ Gt0(ret[1].r.rate_b)
    /\ ret[1].r.rate_a # ret[1].r.rate_b
    /\ ret[2].r.risk_ratio # ret[1].r.risk_ratio

\* C10: when the restricted subset is not empty and the chi-square test is
\* undefined on its contingency table (a compared group has no counted
\* record, fewer than two outcome categories are present, or every outcome
\* code is missing), the p-value is 1.0 and the rates and the risk ratio
\* are returned as for any other table.
C10_UndefinedTestGivesPOne ==
    \A c \in Calls :
        LET nA == CountGroup(df_filtered, c.q.col_name, c.q.group_yes)
            nB == CountGroup(df_filtered, c.q.col_name, c.q.group_no)
            kA == CountCode(df_filtered, c.q.col_name, c.q.group_yes, Cell(1))
            kB == CountCode(df_filtered, c.q.col_name, c.q.group_no, Cell(1))
        IN  (~SubsetEmpty(df_filtered, c.q) /\ TestUndefined(df_filtered, c.q)) =>
              /\ c.r.p = POne
              /\ nA > 0 => IsFraction(c.r.rate_a, kA, nA)
              /\ nB > 0 => IsFraction(c.r.rate_b, kB, nB)
              /\ kB = 0 => c.r.risk_ratio = Zero

\* a call on records that all have a missing outcome code, both groups there
C10_Witness ==
    \E c \in Calls :
        /\ CountGroup(df_filtered, c.q.col_name, c.q.group_yes) > 0
        /\ CountGroup(df_filtered, c.q.col_name, c.q.group_no) > 0
        /\ CodesPresent(df_filtered, c.q) = {}
        /\ c.r.p = POne
        /\ c.r.rate_a = Zero

----------------------------------------------------------------------------
(* Claims about load_data, checked under SpecLoad                          *)

Loaded == pc = "sidebar"

\* C6: after load_data every record has Has_Cavity_Numeric 0 or 1, 1 exactly
\* when the raw outcome code is 1; a code outside {1,2,3}, a missing one
\* included, gives 0 and an unmapped Cavity_Status, and the codes 1, 2, 3
\* give "Has Cavities", "Healthy", "Unknown".
C6_OutcomeColumns ==
    Loaded =>
        /\ Len(df) = Len(csv.rows)
        /\ \A i \in 1..Len(df) :
              LET code == csv.rows[i].Ha_carie
              IN  /\ df[i].Has_Cavity_Numeric \in {0, 1}
                  /\ df[i].Has_Cavity_Numeric = 1 <=> code = Cell(1)
                  /\ code \notin {Cell(1), Cell(2), Cell(3)} =>
                        (df[i].Has_Cavity_Numeric = 0 /\ df[i].Cavity_Status = NoLabel)
                  /\ code = Cell(1) => df[i].Cavity_Status = "Has Cavities"
                  /\ code = Cell(2) => df[i].Cavity_Status = "Healthy"
                  /\ code = Cell(3) => df[i].Cavity_Status = "Unknown"

\* a record without an outcome code was loaded
C6_Witness ==
    /\ Loaded
    /\ \E i \in 1..Len(df) :
          /\ csv.rows[i].Ha_carie = Missing
          /\ df[i].Has_Cavity_Numeric = 0
          /\ df[i].Cavity_Status = NoLabel

\* C7: after load_data the dentist label is "Never Visited", "Visited",
\* "Don't Remember" for the codes 1, 2, 3 and "Don't Remember" for any other
\* or missing code; the sweets and soda labels are "Yes", "No", "Other" for
\* 1, 2, 3 and "Other" for any other or missing code; no label is unmapped.
C7_FactorLabels ==
    Loaded =>
        /\ Len(df) = Len(csv.rows)
        /\ \A i \in 1..Len(df) :
              LET raw == csv.rows[i]
                  yesno(code) == IF code = Cell(1) THEN "Yes"
                                 ELSE IF code = Cell(2) THEN "No" ELSE "Other"
              IN  /\ df[i].Dentist_Label =
                        (IF raw.dentist = Cell(1) THEN "Never Visited"
                         ELSE IF raw.dentist = Cell(2) THEN "Visited"
                         ELSE "Don't Remember")
                  /\ df[i].Sweets_Label = yesno(raw.sweets)
                  /\ df[i].Soda_Label = yesno(raw.soda)
                  /\ NoLabel \notin {df[i].Dentist_Label, df[i].Sweets_Label, df[i].Soda_Label}

\* Scenario 3: a record with dentist code 4 and no sweets answer was loaded
C7_Witness ==
    /\ Loaded
    /\ \E i \in 1..Len(df) :
          /\ csv.rows[i].dentist = Cell(4)
          /\ csv.rows[i].sweets = Missing
          /\ df[i].Dentist_Label = "Don't Remember"
          /\ df[i].Sweets_Label = "Other"

----------------------------------------------------------------------------
(* Claims about the script run, checked under Spec                         *)

Defaults == Result(POne, Zero, Zero, Zero)

\* C1: a call whose dataset holds no record of groupA or groupB returns
\* p-value 1.0, risk ratio 0.0, rateA 0.0 and rateB 0.0; so does each of the
\* three sections after a gender/age filter that excludes every record.
C1_EmptySubsetDefaults ==
    /\ \A c \in Calls : SubsetEmpty(df_filtered, c.q) => c.r = Defaults
    /\ \A t \in Titles :
          (memo[t] # <<>> /\ SubsetEmpty(memo[t][1].data, Section(t))) =>
              memo[t][1].r = Defaults

\* Scenario 4: with every gender selected, the age range excluded every
\* record of a loaded file, and all three sections were rendered
C1_Witness ==
    /\ pc = "qualitative"
    /\ df # <<>>
    /\ sel_gender = {r.Sesso : r \in Range(df)}
    /\ df_filtered = <<>>
    /\ ret = <<[q |-> Section("dentist"), r |-> Defaults]>>
    /\ \A t \in Titles : memo[t] = <<[data |-> <<>>, r |-> Defaults]>>

\* C8: when the file is missing or lacks a required column, the run halts
\* with the blocking error message before any label is derived, any filter
\* is applied and any comparison is made.
C8_FailedLoadHaltsFirst ==
    (pc # "start" /\ (~csv.exists \/ ~(RequiredColumns \subseteq csv.columns))) =>
        /\ pc = "stopped"
        /\ error = "st.error"
        /\ trace = {}
        /\ ret = NoRet

=============================================================================
